---- MODULE Spec2Model ----
(***************************************************************************)
(* A model of the multi-RAG service (src/api): the glob filter functions,  *)
(* the per-instance configuration, the instance lifecycle on the           *)
(* filesystem (files root, index directory, config file, summary file),    *)
(* the process-wide embedding-model setting, and the agent event stream.   *)
(***************************************************************************)
EXTENDS Integers, Sequences, FiniteSets, TLC

\* ------------------------------------------------------------------------
\* Strings.  File names and glob patterns are atomic identifiers in the
\* state; Chars gives the characters of each, which is what fnmatch reads.
\* ------------------------------------------------------------------------

Chars(s) ==
    CASE s = "a.txt"    -> <<"a", ".", "t", "x", "t">>
      [] s = "b.json"   -> <<"b", ".", "j", "s", "o", "n">>
      [] s = "b.md"     -> <<"b", ".", "m", "d">>
      [] s = "t.md"     -> <<"t", ".", "m", "d">>
      [] s = "s/a.txt"  -> <<"s", "/", "a", ".", "t", "x", "t">>
      [] s = "**/*"     -> <<"*", "*", "/", "*">>
      [] s = "*"        -> <<"*">>
      [] s = "*.txt"    -> <<"*", ".", "t", "x", "t">>
      [] s = "*.json"   -> <<"*", ".", "j", "s", "o", "n">>
      [] s = "*.md"     -> <<"*", ".", "m", "d">>
      [] s = "?.txt"    -> <<"?", ".", "t", "x", "t">>
      [] s = "a*"       -> <<"a", "*">>
      [] s = "s/*"      -> <<"s", "/", "*">>
      [] OTHER          -> <<>>

\* fnmatch.fnmatch(name, pat) on POSIX (normcase is the identity): the
\* pattern is translated to a regular expression matched against the whole
\* name; '*' matches any run of characters (a '/' included), '?' matches
\* one character, every other character matches itself.
RECURSIVE FnMatchFrom(_, _, _, _)
FnMatchFrom(s, i, p, j) ==
    IF j > Len(p) THEN i > Len(s)
    ELSE IF p[j] = "*"
         THEN FnMatchFrom(s, i, p, j + 1)
              \/ (i <= Len(s) /\ FnMatchFrom(s, i + 1, p, j))
    ELSE IF p[j] = "?"
         THEN i <= Len(s) /\ FnMatchFrom(s, i + 1, p, j + 1)
    ELSE i <= Len(s) /\ s[i] = p[j] /\ FnMatchFrom(s, i + 1, p, j + 1)

fnmatchChars(s, p) == FnMatchFrom(s, 1, p, 1)

fnmatch(name, pat) == fnmatchChars(Chars(name), Chars(pat))

\* any(fnmatch(file, p) for p in globs), as the two inner loops compute it
MatchesAny(name, globs) ==
    \E k \in 1..Len(globs) : fnmatch(name, globs[k])

\* A filter that looks at the include patterns only
AdmitsFileIncludeOnly(file, include_globs, exclude_globs) ==
    MatchesAny(file, include_globs)

\* The per-file decision of filter_files_by_globs: excluded files are skipped
\* (continue) before the include patterns are looked at.
AdmitsFile(file, include_globs, exclude_globs) ==
    IF MatchesAny(file, exclude_globs) THEN FALSE
    ELSE MatchesAny(file, include_globs)

\* filter_files_by_globs / RAGService._filter_files_by_globs: the admitted
\* files, in input order.
RECURSIVE filter_files_by_globs(_, _, _)
filter_files_by_globs(files, include_globs, exclude_globs) ==
    IF files = <<>> THEN <<>>
    ELSE LET file == Head(files)
             rest == filter_files_by_globs(Tail(files), include_globs, exclude_globs)
         IN IF AdmitsFile(file, include_globs, exclude_globs)
            THEN <<file>> \o rest
            ELSE rest

\* Path(file_path).name: the characters after the last '/'.
RECURSIVE BaseNameChars(_)
BaseNameChars(cs) ==
    IF \E k \in 1..Len(cs) : cs[k] = "/"
    THEN BaseNameChars(Tail(cs))
    ELSE cs

\* The directory reader gives every document an absolute file_path: the
\* files root's path (written "d/") followed by the path under the root.
RootPrefix == <<"d", "/">>

FilePathChars(rel) == RootPrefix \o Chars(rel)

\* The per-document decision of filter_documents_by_include_globs: the
\* pattern is tried on the file name and on the whole file_path.
AdmitsDocument(rel, include_globs) ==
    \E k \in 1..Len(include_globs) :
        \/ fnmatchChars(BaseNameChars(FilePathChars(rel)), Chars(include_globs[k]))
        \/ fnmatchChars(FilePathChars(rel), Chars(include_globs[k]))

\* ------------------------------------------------------------------------
\* RAGConfig
\* ------------------------------------------------------------------------

DefaultChatModel == "gpt-4o-mini"
DefaultEmbeddingModel == "text-embedding-3-large"
DefaultSystemPrompt ==
    "You are a helpful assistant that answers questions based on the provided context. Be concise and accurate."

\* The sources a config may hold a filter rule for: the links and folders of
\* a files root and the "_base" key of the loose files.
SourceNames == {"_base", "link1", "sub"}

\* One entry of file_filters.  A rule is a dict that may lack either key.
NoRule == [present |-> FALSE, hasInclude |-> FALSE, include |-> <<>>,
           hasExclude |-> FALSE, exclude |-> <<>>]

Rule(inc, exc) == [present |-> TRUE, hasInclude |-> TRUE, include |-> inc,
                   hasExclude |-> TRUE, exclude |-> exc]

NoFilters == [s \in SourceNames |-> NoRule]

\* A lookup whose default rule includes nothing
get_file_filters_empty_default(file_filters, path_name) ==
    IF file_filters[path_name].present
    THEN [include |-> file_filters[path_name].include,
          exclude |-> file_filters[path_name].exclude]
    ELSE [include |-> <<>>, exclude |-> <<>>]

\* RAGConfig.get_file_filters_for_path: the entry's patterns, each key
\* defaulted when the entry lacks it; the default rule when there is no entry.
get_file_filters_for_path(file_filters, path_name) ==
    IF file_filters[path_name].present
    THEN LET filters == file_filters[path_name]
         IN [include |-> IF filters.hasInclude THEN filters.include ELSE <<"**/*">>,
             exclude |-> IF filters.hasExclude THEN filters.exclude ELSE <<>>]
    ELSE [include |-> <<"**/*">>, exclude |-> <<>>]


\* RAGConfig.__init__ with its default arguments
DefaultConfig ==
    [chat_model |-> DefaultChatModel,
     embedding_model |-> DefaultEmbeddingModel,
     system_prompt |-> DefaultSystemPrompt,
     file_filters |-> NoFilters]

\* A JSON value that is not a string, held where a string is expected
NotAString == "#int"
\* A key a JSON object does not hold
Missing == "#missing"

\* The content of data/configs/<rag_name>.json.  state is "absent" (no
\* file), "malformed" (not JSON), "nonobject" (JSON, but not an object) or
\* "object"; an object holds the four keys, each possibly Missing.
NoFile ==
    [state |-> "absent", chat_model |-> Missing, embedding_model |-> Missing,
     system_prompt |-> Missing, has_filters |-> FALSE, file_filters |-> NoFilters]

MalformedFile == [NoFile EXCEPT !.state = "malformed"]

NonObjectFile == [NoFile EXCEPT !.state = "nonobject"]

\* json.dumps(config.to_dict(), indent=2): an object with all four keys
to_dict(config) ==
    [state |-> "object", chat_model |-> config.chat_model,
     embedding_model |-> config.embedding_model,
     system_prompt |-> config.system_prompt,
     has_filters |-> TRUE, file_filters |-> config.file_filters]

\* RAGConfig.from_dict: every key read with data.get(key, default); nothing
\* is type-checked.
from_dict(data) ==
    [chat_model |-> IF data.chat_model = Missing THEN DefaultChatModel
                    ELSE data.chat_model,
     embedding_model |-> IF data.embedding_model = Missing THEN DefaultEmbeddingModel
                         ELSE data.embedding_model,
     system_prompt |-> IF data.system_prompt = Missing THEN DefaultSystemPrompt
                       ELSE data.system_prompt,
     file_filters |-> IF data.has_filters THEN data.file_filters ELSE NoFilters]

\* A load that writes back what it read, completed with the defaults
LoadRagConfigRewriting(file) ==
    CASE file.state = "object" ->
            [exc |-> "none", config |-> from_dict(file), file |-> to_dict(from_dict(file))]
      [] file.state = "nonobject" ->
            [exc |-> "AttributeError", config |-> DefaultConfig, file |-> file]
      [] OTHER ->
            [exc |-> "none", config |-> DefaultConfig, file |-> to_dict(DefaultConfig)]

\* RAGService._load_rag_config on a config file holding `file`: the config
\* returned, the file afterwards, and the exception that escapes ("none"
\* when the call returns).  A missing file and a JSONDecodeError both end in
\* the default config being written; json.loads of a non-object succeeds and
\* from_dict then fails on data.get, which the except clause does not catch.
LoadRagConfig(file) ==
    CASE file.state = "object" ->
            [exc |-> "none", config |-> from_dict(file), file |-> file]
      [] file.state = "nonobject" ->
            [exc |-> "AttributeError", config |-> DefaultConfig, file |-> file]
      [] OTHER ->
            [exc |-> "none", config |-> DefaultConfig, file |-> to_dict(DefaultConfig)]


\* ------------------------------------------------------------------------
\* The instance lifecycle: RAGService on the filesystem
\* ------------------------------------------------------------------------

\* Instance names (the directory keys)
Names == {"docs1", "docs2"}

\* Names of the direct children of a files root
FileNames == {"a.txt"}
FolderNames == {"sub"}
LinkNames == {"link1"}
EntryNames == FileNames \cup FolderNames \cup LinkNames

\* What a child of the files root is: nothing, a regular file, a folder, a
\* symbolic link to a directory or a symbolic link to a regular file.
Kinds == {"none", "file", "folder", "linkdir", "linkfile"}

\* Link targets outside the files root and what each is
TargetPaths == {"/tmp/shared", "/tmp/f.txt", "/tmp/missing"}

TargetKind(target_path) ==
    CASE target_path = "/tmp/shared" -> "dir"
      [] target_path = "/tmp/f.txt"  -> "file"
      [] OTHER                       -> "missing"

\* URLs that may be added to an index
Urls == {"u1"}

\* A document of an index: where it comes from and whether its metadata
\* carries source_type = web_page.
FileDoc(src) == [source |-> src, web |-> FALSE]
WebDoc(url) == [source |-> url, web |-> TRUE]

VARIABLES
    filesRoot,    \* filesRoot[n]: data/files/<n>/ exists
    entries,      \* entries[n][e]: the kind of child e of data/files/<n>/
    indexDir,     \* indexDir[n]: data/indices/<n>/ exists
    indexDocs,    \* indexDocs[n]: the documents persisted under data/indices/<n>/
    configFile,   \* configFile[n]: the content of data/configs/<n>.json
    summaryFile,  \* summaryFile[n]: data/resumes/<n>.md exists
    last          \* the last request: what was asked and how it was answered

lifeVars == <<filesRoot, entries, indexDir, indexDocs, configFile, summaryFile, last>>

NoEntries == [e \in EntryNames |-> "none"]

\* The answer to a request: the operation, its instance, the HTTP status,
\* the exception that ended the service call ("none"), the detail of the
\* response, whether the engine was asked for a summary, and the names a
\* listing returned.
Answer(op, n, status, exc) ==
    [op |-> op, name |-> n, status |-> status, exc |-> exc, detail |-> "",
     summarized |-> FALSE, listed |-> {}]

\* A listing of the names that have a files root
list_rags_by_files_root == {n \in Names : filesRoot[n]}

\* RAGService.list_rags: the directories under data/indices
list_rags == {n \in Names : indexDir[n]}

\* RAGService.get_files: regular files that are not links
get_files(n) == {e \in EntryNames : entries[n][e] = "file"}

\* RAGService.get_symlinks
get_symlinks(n) == {e \in EntryNames : entries[n][e] \in {"linkdir", "linkfile"}}

\* file.endswith(".json")
EndsWithJson(file) ==
    LET cs == Chars(file)
    IN Len(cs) >= 5 /\ SubSeq(cs, Len(cs) - 4, Len(cs)) = <<".", "j", "s", "o", "n">>

\* The documents create_rag loads through one symbolic link: the reader
\* walks the target (one file, t.md), leaves out what an exclude pattern
\* matches, and the include patterns are then applied to the file_path.
LinkDocs(config, link) ==
    LET filters == get_file_filters_for_path(config.file_filters, link)
    IN IF ~MatchesAny("t.md", filters.exclude) /\ AdmitsDocument("t.md", filters.include)
       THEN {FileDoc(link)}
       ELSE {}

\* The documents create_rag loads from the loose files of the files root:
\* when every loose file ends in .json the names go through
\* _filter_files_by_globs and a JSONReader, else the directory reader loads
\* them (less the excluded) and _filter_documents_by_include_globs admits.
BaseDocs(config, files) ==
    LET base_filters == get_file_filters_for_path(config.file_filters, "_base")
    IN IF \A f \in files : EndsWithJson(f)
       THEN {FileDoc(f) : f \in {g \in files :
                 AdmitsFile(g, base_filters.include, base_filters.exclude)}}
       ELSE {FileDoc(f) : f \in {g \in files :
                 /\ ~MatchesAny(g, base_filters.exclude)
                 /\ AdmitsDocument(g, base_filters.include)}}

\* Where the retrieval engine may fail during one create_rag call
CreateFailures == {"none", "build", "persist", "summary"}

\* RAGService.create_rag(n): the state it leaves and the exception it ends
\* with.  The files root is made first, then the config is loaded (and
\* written when absent or unparseable); the index directory is emptied and
\* the new index persisted; a summary is then requested and written.
create_rag(n, fail) ==
    LET loaded == LoadRagConfig(configFile[n])
        config == loaded.config
        docs == UNION {LinkDocs(config, l) : l \in get_symlinks(n)}
                \cup BaseDocs(config, get_files(n))
        pre == [filesRoot |-> TRUE, configFile |-> loaded.file,
                indexDir |-> indexDir[n], indexDocs |-> indexDocs[n],
                summaryFile |-> summaryFile[n], summarized |-> FALSE,
                exc |-> "none"]
    IN CASE loaded.exc # "none" ->
                [pre EXCEPT !.exc = loaded.exc]
         [] fail = "build" ->
                [pre EXCEPT !.exc = "Exception"]
         [] fail = "persist" ->
                [pre EXCEPT !.indexDir = TRUE, !.indexDocs = {}, !.exc = "Exception"]
         [] fail = "summary" ->
                [pre EXCEPT !.indexDir = TRUE, !.indexDocs = docs,
                            !.summarized = TRUE, !.exc = "Exception"]
         [] OTHER ->
                [pre EXCEPT !.indexDir = TRUE, !.indexDocs = docs,
                            !.summarized = TRUE, !.summaryFile = TRUE]

\* What the two loops of delete_rag unlink in the files root: the children
\* for which is_file() holds (a link to a file included).
DeletableKinds == {"none", "file", "linkfile"}

\* A delete that does not look for the index directory first
delete_rag_unguarded(n) ==
    [filesRoot |-> FALSE, entries |-> NoEntries, indexDir |-> FALSE, indexDocs |-> {},
     configFile |-> NoFile, summaryFile |-> FALSE, exc |-> "none"]

\* RAGService.delete_rag(n): NotFound before anything is touched when the
\* index directory is missing; else the index directory goes, then the files
\* of the files root and the root itself (rmdir fails on a root that still
\* holds a folder or a link to a directory), then the config and the summary.
delete_rag(n) ==
    LET pre == [filesRoot |-> filesRoot[n], entries |-> entries[n],
                indexDir |-> indexDir[n], indexDocs |-> indexDocs[n],
                configFile |-> configFile[n], summaryFile |-> summaryFile[n],
                exc |-> "none"]
        kept == [e \in EntryNames |->
                    IF entries[n][e] \in DeletableKinds THEN "none" ELSE entries[n][e]]
    IN IF ~indexDir[n]
       THEN [pre EXCEPT !.exc = "FileNotFoundError"]
       ELSE IF filesRoot[n] /\ kept # NoEntries
       THEN [pre EXCEPT !.indexDir = FALSE, !.indexDocs = {},
                        !.entries = kept, !.exc = "OSError"]
       ELSE [pre EXCEPT !.indexDir = FALSE, !.indexDocs = {},
                        !.filesRoot = FALSE, !.entries = NoEntries,
                        !.configFile = NoFile, !.summaryFile = FALSE]


\* ---- the routes of services/rag_router.py ----

\* What a create_rag call leaves on disk
StoreCreate(n, r) ==
    /\ filesRoot' = [filesRoot EXCEPT ![n] = r.filesRoot]
    /\ configFile' = [configFile EXCEPT ![n] = r.configFile]
    /\ indexDir' = [indexDir EXCEPT ![n] = r.indexDir]
    /\ indexDocs' = [indexDocs EXCEPT ![n] = r.indexDocs]
    /\ summaryFile' = [summaryFile EXCEPT ![n] = r.summaryFile]
    /\ UNCHANGED entries

\* POST /rag/{rag_name}: every exception of create_rag is answered 500
CreateRagReq(n, fail) ==
    LET r == create_rag(n, fail)
    IN /\ StoreCreate(n, r)
       /\ last' = [Answer("create_rag", n, IF r.exc = "none" THEN 200 ELSE 500, r.exc)
                      EXCEPT !.summarized = r.summarized]

\* POST /rag/{rag_name}/reindex: 404 unless the instance is listed
ReindexReq(n, fail) ==
    IF n \notin list_rags
    THEN /\ last' = Answer("reindex", n, 404, "none")
         /\ UNCHANGED <<filesRoot, entries, indexDir, indexDocs, configFile, summaryFile>>
    ELSE LET r == create_rag(n, fail)
         IN /\ StoreCreate(n, r)
            /\ last' = [Answer("reindex", n, IF r.exc = "none" THEN 200 ELSE 500, r.exc)
                           EXCEPT !.summarized = r.summarized]

\* DELETE /rag/{rag_name}: FileNotFoundError is answered 404; any other
\* exception is not handled by the route (500).
DeleteRagReq(n) ==
    LET r == delete_rag(n)
    IN /\ filesRoot' = [filesRoot EXCEPT ![n] = r.filesRoot]
       /\ entries' = [entries EXCEPT ![n] = r.entries]
       /\ indexDir' = [indexDir EXCEPT ![n] = r.indexDir]
       /\ indexDocs' = [indexDocs EXCEPT ![n] = r.indexDocs]
       /\ configFile' = [configFile EXCEPT ![n] = r.configFile]
       /\ summaryFile' = [summaryFile EXCEPT ![n] = r.summaryFile]
       /\ last' = Answer("delete_rag", n,
                         CASE r.exc = "none" -> 204
                           [] r.exc = "FileNotFoundError" -> 404
                           [] OTHER -> 500,
                         r.exc)

\* GET /rag
ListRagsReq ==
    /\ last' = [Answer("list_rags", "", 200, "none") EXCEPT !.listed = list_rags]
    /\ UNCHANGED <<filesRoot, entries, indexDir, indexDocs, configFile, summaryFile>>

\* A file name of an upload that climbs out of the files root: joined to
\* data/files/<rag_name>/ it names a file of the index directory of docs2.
ClimbingFiles == {"../../indices/docs2/docstore.json"}

\* The instance whose index directory a climbing file name resolves into
ClimbsTo(filename) == "docs2"

\* POST /rag/{rag_name}/files with a file: RAGService.save_file makes the
\* files root, makes the parent directories of files_path / filename and
\* writes the file; the file name of the upload is used as it is sent.
\* Writing onto a folder or onto a link to a directory fails, writing onto
\* a link to a file writes its target.  A climbing name makes the index
\* directory it names and replaces the docstore persisted there.
SaveFileReq(n, filename) ==
    IF filename \in ClimbingFiles
    THEN /\ filesRoot' = [filesRoot EXCEPT ![n] = TRUE]
         /\ indexDir' = [indexDir EXCEPT ![ClimbsTo(filename)] = TRUE]
         /\ indexDocs' = [indexDocs EXCEPT ![ClimbsTo(filename)] = {}]
         /\ last' = Answer("save_file", n, 201, "none")
         /\ UNCHANGED <<entries, configFile, summaryFile>>
    ELSE LET kind == entries[n][filename]
             fails == kind \in {"folder", "linkdir"}
         IN /\ filesRoot' = [filesRoot EXCEPT ![n] = TRUE]
            /\ entries' = [entries EXCEPT ![n][filename] =
                              IF kind = "none" THEN "file" ELSE kind]
            /\ last' = Answer("save_file", n, IF fails THEN 500 ELSE 201,
                              IF fails THEN "IsADirectoryError" ELSE "none")
            /\ UNCHANGED <<indexDir, indexDocs, configFile, summaryFile>>

\* DELETE /rag/{rag_name}/files/{filename}: RAGService.delete_file; unlink
\* of a folder fails with an OSError the route does not handle.
DeleteFileReq(n, filename) ==
    LET kind == entries[n][filename]
        exc == CASE ~filesRoot[n] -> "FileNotFoundError"
                 [] kind = "none" -> "FileNotFoundError"
                 [] kind = "folder" -> "OSError"
                 [] OTHER -> "none"
    IN /\ entries' = IF exc = "none" THEN [entries EXCEPT ![n][filename] = "none"]
                     ELSE entries
       /\ last' = Answer("delete_file", n,
                         CASE exc = "none" -> 204
                           [] exc = "FileNotFoundError" -> 404
                           [] OTHER -> 500,
                         exc)
       /\ UNCHANGED <<filesRoot, indexDir, indexDocs, configFile, summaryFile>>

\* `patterns or default` of the folder and symlink routes
OrDefault(patterns, default) == IF patterns = <<>> THEN default ELSE patterns

\* The tail of the folder and symlink routes: the config is loaded, the
\* entry's rule is set in it, and RAGService.update_rag_config writes it,
\* which fails with FileNotFoundError when the index directory is missing.
StoreFilterRule(n, source, inc, exc) ==
    LET loaded == LoadRagConfig(configFile[n])
        rule == Rule(OrDefault(inc, <<"**/*">>), OrDefault(exc, <<>>))
        config == [loaded.config EXCEPT !.file_filters[source] = rule]
    IN CASE loaded.exc # "none" -> [exc |-> loaded.exc, file |-> loaded.file]
         [] ~indexDir[n] -> [exc |-> "FileNotFoundError", file |-> loaded.file]
         [] OTHER -> [exc |-> "none", file |-> to_dict(config)]

\* POST /rag/{rag_name}/files with a JSON body: RAGService.create_folder,
\* then the folder's filter rule is stored; every exception is answered 500.
CreateFolderReq(n, folder_name, inc, exc) ==
    IF entries[n][folder_name] # "none"
    THEN /\ filesRoot' = [filesRoot EXCEPT ![n] = TRUE]
         /\ last' = Answer("create_folder", n, 500, "FileExistsError")
         /\ UNCHANGED <<entries, indexDir, indexDocs, configFile, summaryFile>>
    ELSE LET stored == StoreFilterRule(n, folder_name, inc, exc)
         IN /\ filesRoot' = [filesRoot EXCEPT ![n] = TRUE]
            /\ entries' = [entries EXCEPT ![n][folder_name] = "folder"]
            /\ configFile' = [configFile EXCEPT ![n] = stored.file]
            /\ last' = Answer("create_folder", n,
                              IF stored.exc = "none" THEN 201 ELSE 500, stored.exc)
            /\ UNCHANGED <<indexDir, indexDocs, summaryFile>>

\* A symlink request that looks at the link name before the target
CreateSymlinkReqLinkFirst(n, target_path, link_name, inc, exc) ==
    LET svc == CASE entries[n][link_name] # "none" -> "FileExistsError"
                 [] TargetKind(target_path) = "missing" -> "FileNotFoundError"
                 [] OTHER -> "none"
    IN IF svc # "none"
       THEN /\ filesRoot' = [filesRoot EXCEPT ![n] = TRUE]
            /\ last' = Answer("create_symlink", n, 400, svc)
            /\ UNCHANGED <<entries, indexDir, indexDocs, configFile, summaryFile>>
       ELSE LET stored == StoreFilterRule(n, link_name, inc, exc)
            IN /\ filesRoot' = [filesRoot EXCEPT ![n] = TRUE]
               /\ entries' = [entries EXCEPT ![n][link_name] =
                                 IF TargetKind(target_path) = "dir"
                                 THEN "linkdir" ELSE "linkfile"]
               /\ configFile' = [configFile EXCEPT ![n] = stored.file]
               /\ last' = Answer("create_symlink", n,
                                 CASE stored.exc = "none" -> 201
                                   [] stored.exc = "FileNotFoundError" -> 400
                                   [] OTHER -> 500,
                                 stored.exc)
               /\ UNCHANGED <<indexDir, indexDocs, summaryFile>>

\* POST /rag/{rag_name}/symlink: RAGService.create_symlink makes the files
\* root, then checks the target, then the link name, then links; the link's
\* filter rule is stored afterwards.  FileNotFoundError and FileExistsError
\* are answered 400, whichever call raised them.
CreateSymlinkReq(n, target_path, link_name, inc, exc) ==
    LET svc == CASE TargetKind(target_path) = "missing" -> "FileNotFoundError"
                 [] entries[n][link_name] # "none" -> "FileExistsError"
                 [] OTHER -> "none"
    IN IF svc # "none"
       THEN /\ filesRoot' = [filesRoot EXCEPT ![n] = TRUE]
            /\ last' = Answer("create_symlink", n, 400, svc)
            /\ UNCHANGED <<entries, indexDir, indexDocs, configFile, summaryFile>>
       ELSE LET stored == StoreFilterRule(n, link_name, inc, exc)
            IN /\ filesRoot' = [filesRoot EXCEPT ![n] = TRUE]
               /\ entries' = [entries EXCEPT ![n][link_name] =
                                 IF TargetKind(target_path) = "dir"
                                 THEN "linkdir" ELSE "linkfile"]
               /\ configFile' = [configFile EXCEPT ![n] = stored.file]
               /\ last' = Answer("create_symlink", n,
                                 CASE stored.exc = "none" -> 201
                                   [] stored.exc = "FileNotFoundError" -> 400
                                   [] OTHER -> 500,
                                 stored.exc)
               /\ UNCHANGED <<indexDir, indexDocs, summaryFile>>


\* Where fetching or the retrieval engine may fail during one URL request
UrlFailures == {"none", "fetch", "insert"}

\* POST /rag/{rag_name}/urls: 404 unless listed; RAGService.add_url_to_rag
\* fetches the page, loads the config, loads the index, inserts the page and
\* persists the index.  Every exception is answered 400.
AddUrlReq(n, url, fail) ==
    IF n \notin list_rags
    THEN /\ last' = Answer("add_url", n, 404, "none")
         /\ UNCHANGED <<filesRoot, entries, indexDir, indexDocs, configFile, summaryFile>>
    ELSE LET loaded == LoadRagConfig(configFile[n])
             exc == CASE fail = "fetch" -> "Exception"
                      [] loaded.exc # "none" -> loaded.exc
                      [] fail # "none" -> "Exception"
                      [] OTHER -> "none"
         IN /\ configFile' = IF fail = "fetch" THEN configFile
                             ELSE [configFile EXCEPT ![n] = loaded.file]
            /\ indexDocs' = IF exc = "none"
                            THEN [indexDocs EXCEPT ![n] = @ \cup {WebDoc(url)}]
                            ELSE indexDocs
            /\ last' = Answer("add_url", n, IF exc = "none" THEN 201 ELSE 400, exc)
            /\ UNCHANGED <<filesRoot, entries, indexDir, summaryFile>>

\* DELETE /rag/{rag_name}/urls: 404 unless listed; RAGService.remove_url_from_rag
\* loads the index, deletes the documents of the URL and persists the index.
RemoveUrlReq(n, url) ==
    IF n \notin list_rags
    THEN /\ last' = Answer("remove_url", n, 404, "none")
         /\ UNCHANGED <<filesRoot, entries, indexDir, indexDocs, configFile, summaryFile>>
    ELSE LET loaded == LoadRagConfig(configFile[n])
         IN /\ configFile' = [configFile EXCEPT ![n] = loaded.file]
            /\ indexDocs' = IF loaded.exc = "none"
                            THEN [indexDocs EXCEPT ![n] = @ \ {WebDoc(url)}]
                            ELSE indexDocs
            /\ last' = Answer("remove_url", n,
                              IF loaded.exc = "none" THEN 204 ELSE 400, loaded.exc)
            /\ UNCHANGED <<filesRoot, entries, indexDir, summaryFile>>

\* The route module calls model_dump, model_copy and model_validate on
\* RAGConfig: the pydantic declaration of the class, with the four fields
\* of the config JSON (three strings and the file_filters mapping).

\* config.model_dump(): the four fields as a dict
model_dump(config) ==
    [chat_model |-> config.chat_model,
     embedding_model |-> config.embedding_model,
     system_prompt |-> config.system_prompt,
     file_filters |-> config.file_filters]

\* GET /rag/{rag_name}/config: RAGService.get_rag_config is _load_rag_config,
\* which never looks at the index directory and writes the default config
\* where it finds none; only FileNotFoundError is handled by the route.
GetConfigReq(n) ==
    LET loaded == LoadRagConfig(configFile[n])
    IN /\ configFile' = [configFile EXCEPT ![n] = loaded.file]
       /\ last' = Answer("get_config", n,
                         IF loaded.exc = "none" THEN 200 ELSE 500, loaded.exc)
       /\ UNCHANGED <<filesRoot, entries, indexDir, indexDocs, summaryFile>>

\* The keys the update route applies, and a key it ignores
AllowedKeys == {"chat_model", "embedding_model", "file_filters", "system_prompt"}
BodyKeys == AllowedKeys \cup {"unknown"}

\* A filter mapping a request may carry
BodyFilters == [NoFilters EXCEPT !["_base"] = Rule(<<"*.txt">>, <<>>)]

\* A request body of the update route: the keys it holds and the value of
\* each allowed key (read only for the keys held); filters_typed: the value
\* of file_filters is a mapping of rules.
Body(keys) ==
    [keys |-> keys, chat_model |-> "gpt-4o", embedding_model |-> "text-embedding-3-small",
     system_prompt |-> "be brief", file_filters |-> BodyFilters, filters_typed |-> TRUE]

\* existing_config.model_copy(update=updates): the named fields replaced,
\* nothing validated
model_copy(config, body) ==
    [chat_model |-> IF "chat_model" \in body.keys
                    THEN body.chat_model ELSE config.chat_model,
     embedding_model |-> IF "embedding_model" \in body.keys
                         THEN body.embedding_model ELSE config.embedding_model,
     system_prompt |-> IF "system_prompt" \in body.keys
                       THEN body.system_prompt ELSE config.system_prompt,
     file_filters |-> IF "file_filters" \in body.keys
                      THEN body.file_filters ELSE config.file_filters]

\* RAGConfig.model_validate(new_config.model_dump()) returns: the three
\* model fields are strings and file_filters is a mapping of rules
\* (a ValidationError, which is a ValueError, otherwise).
model_validate(config, body) ==
    /\ model_dump(config).chat_model # NotAString
    /\ model_dump(config).embedding_model # NotAString
    /\ model_dump(config).system_prompt # NotAString
    /\ ("file_filters" \in body.keys => body.filters_typed)

\* An update that persists the merged record before validating it
UpdateConfigReqWriteFirst(n, body) ==
    LET loaded == LoadRagConfig(configFile[n])
        updates == body.keys \cap AllowedKeys
        new_config == model_copy(loaded.config, body)
        asked == Answer("update_config", n, 200, "none")
    IN /\ UNCHANGED <<filesRoot, entries, indexDir, indexDocs, summaryFile>>
       /\ CASE loaded.exc # "none" ->
                 /\ configFile' = [configFile EXCEPT ![n] = loaded.file]
                 /\ last' = [asked EXCEPT !.status = 500, !.exc = loaded.exc]
            [] body.keys = {} ->
                 /\ configFile' = [configFile EXCEPT ![n] = loaded.file]
                 /\ last' = [asked EXCEPT !.status = 400, !.exc = "HTTPException",
                                          !.detail = "Invalid configuration"]
            [] updates = {} ->
                 /\ configFile' = [configFile EXCEPT ![n] = loaded.file]
                 /\ last' = [asked EXCEPT !.detail = "No changes provided"]
            [] ~model_validate(new_config, body) ->
                 /\ configFile' = [configFile EXCEPT ![n] = to_dict(new_config)]
                 /\ last' = [asked EXCEPT !.status = 400, !.exc = "ValueError",
                                          !.detail = "Invalid configuration"]
            [] ~indexDir[n] ->
                 /\ configFile' = [configFile EXCEPT ![n] = loaded.file]
                 /\ last' = [asked EXCEPT !.status = 404, !.exc = "FileNotFoundError"]
            [] OTHER ->
                 /\ configFile' = [configFile EXCEPT ![n] = to_dict(new_config)]
                 /\ last' = asked

\* An update that builds the new record from the request alone
UpdateConfigReqReplace(n, body) ==
    LET loaded == LoadRagConfig(configFile[n])
        updates == body.keys \cap AllowedKeys
        new_config == model_copy(DefaultConfig, body)
        asked == Answer("update_config", n, 200, "none")
    IN /\ UNCHANGED <<filesRoot, entries, indexDir, indexDocs, summaryFile>>
       /\ CASE loaded.exc # "none" ->
                 /\ configFile' = [configFile EXCEPT ![n] = loaded.file]
                 /\ last' = [asked EXCEPT !.status = 500, !.exc = loaded.exc]
            [] body.keys = {} ->
                 /\ configFile' = [configFile EXCEPT ![n] = loaded.file]
                 /\ last' = [asked EXCEPT !.status = 400, !.exc = "HTTPException",
                                          !.detail = "Invalid configuration"]
            [] updates = {} ->
                 /\ configFile' = [configFile EXCEPT ![n] = loaded.file]
                 /\ last' = [asked EXCEPT !.detail = "No changes provided"]
            [] ~model_validate(new_config, body) ->
                 /\ configFile' = [configFile EXCEPT ![n] = loaded.file]
                 /\ last' = [asked EXCEPT !.status = 400, !.exc = "ValueError",
                                          !.detail = "Invalid configuration"]
            [] ~indexDir[n] ->
                 /\ configFile' = [configFile EXCEPT ![n] = loaded.file]
                 /\ last' = [asked EXCEPT !.status = 404, !.exc = "FileNotFoundError"]
            [] OTHER ->
                 /\ configFile' = [configFile EXCEPT ![n] = to_dict(new_config)]
                 /\ last' = asked

\* PUT /rag/{rag_name}/config.  The existing config is loaded first (and
\* written when absent or unparseable); an empty body is answered 400; a
\* body without any allowed key is answered 200 'No changes provided'; else
\* the merged record is validated (400 when invalid) and
\* RAGService.update_rag_config writes it, or raises FileNotFoundError
\* (404) when the index directory is missing.
UpdateConfigReq(n, body) ==
    LET loaded == LoadRagConfig(configFile[n])
        updates == body.keys \cap AllowedKeys
        new_config == model_copy(loaded.config, body)
        asked == Answer("update_config", n, 200, "none")
    IN /\ UNCHANGED <<filesRoot, entries, indexDir, indexDocs, summaryFile>>
       /\ CASE loaded.exc # "none" ->
                 /\ configFile' = [configFile EXCEPT ![n] = loaded.file]
                 /\ last' = [asked EXCEPT !.status = 500, !.exc = loaded.exc]
            [] body.keys = {} ->
                 /\ configFile' = [configFile EXCEPT ![n] = loaded.file]
                 /\ last' = [asked EXCEPT !.status = 400, !.exc = "HTTPException",
                                          !.detail = "Invalid configuration"]
            [] updates = {} ->
                 /\ configFile' = [configFile EXCEPT ![n] = loaded.file]
                 /\ last' = [asked EXCEPT !.detail = "No changes provided"]
            [] ~model_validate(new_config, body) ->
                 /\ configFile' = [configFile EXCEPT ![n] = loaded.file]
                 /\ last' = [asked EXCEPT !.status = 400, !.exc = "ValueError",
                                          !.detail = "Invalid configuration"]
            [] ~indexDir[n] ->
                 /\ configFile' = [configFile EXCEPT ![n] = loaded.file]
                 /\ last' = [asked EXCEPT !.status = 404, !.exc = "FileNotFoundError"]
            [] OTHER ->
                 /\ configFile' = [configFile EXCEPT ![n] = to_dict(new_config)]
                 /\ last' = asked

\* The config file is a plain file an operator may edit or damage:
\* _load_rag_config is written to meet content it did not write.
EditConfigFile(n, content) ==
    /\ configFile[n] # content
    /\ configFile' = [configFile EXCEPT ![n] = content]
    /\ last' = Answer("edit_config_file", n, 0, "none")
    /\ UNCHANGED <<filesRoot, entries, indexDir, indexDocs, summaryFile>>

\* RAGService.__init__: the four data directories exist and are empty
LifeInit ==
    /\ filesRoot = [n \in Names |-> FALSE]
    /\ entries = [n \in Names |-> NoEntries]
    /\ indexDir = [n \in Names |-> FALSE]
    /\ indexDocs = [n \in Names |-> {}]
    /\ configFile = [n \in Names |-> NoFile]
    /\ summaryFile = [n \in Names |-> FALSE]
    /\ last = Answer("init", "", 0, "none")


\* ------------------------------------------------------------------------
\* The streamed query: RAGService.async_agent_stream and the stream route
\* ------------------------------------------------------------------------

\* How many raw engine events one run may produce
MaxFeed == 4

\* A string as the stream code reads it: what it starts with, and the rest.
\* origin tells a sentinel the tool built from a text read from a file.
Text(prefix, body, origin) == [prefix |-> prefix, body |-> body, origin |-> origin]
NoText == Text("", "", "none")

\* One element of a retrieval tool's output
Item(isDict, hasContent, hasSource, id) ==
    [isDict |-> isDict, hasContent |-> hasContent, hasSource |-> hasSource, id |-> id]

\* A tool's raw_output: a dict (search), a list of items (rag), a string
\* (read_file) or a list of strings (list_files), or something else.
Output(shape) ==
    [shape |-> shape, hasContent |-> FALSE, hasUrls |-> FALSE, id |-> "",
     items |-> <<>>, text |-> NoText, lines |-> <<>>]

\* A ChatHistoryItem
Message(role, content) == [role |-> role, content |-> content]

\* A ChatMessage of the engine; hasKeys: its model_dump() is a dict holding
\* both 'role' and 'content'.
ChatMessage(role, content, hasKeys) ==
    [role |-> role, content |-> content, hasKeys |-> hasKeys]

\* A raw event of handler.stream_events()
Raw(kind) ==
    [kind |-> kind, delta |-> "", tool |-> "", call |-> 0, output |-> Output("none"),
     response |-> ChatMessage("", "", FALSE)]

\* A StreamEvent (src/types.py); call is the tool invocation a result
\* event comes from (0 for the other events).
Event(type) ==
    [type |-> type, call |-> 0, token |-> "", tool |-> "", source |-> Output("none"),
     items |-> <<>>, success |-> TRUE, content |-> NoText, error |-> NoText,
     files |-> <<>>, item |-> Message("", ""),
     chat_history |-> <<>>, documents |-> <<>>, sources |-> <<>>]

VARIABLES
    streamPc,     \* "running", "done" (returned), "raised", "abandoned"
    rawCount,     \* raw events consumed so far
    calls,        \* calls[i]: the tool of the i-th invocation the engine announced
    finished,     \* the invocations whose result the engine has produced
    history,      \* the caller's input history
    accSources,   \* the generator's local `sources`
    accDocuments, \* the generator's local `documents`
    accChat,      \* the generator's local `chat_history`
    emitted,      \* the events async_agent_stream has yielded
    delivered     \* the events the route has sent to the client

streamVars == <<streamPc, rawCount, calls, finished, history, accSources,
                accDocuments, accChat, emitted, delivered>>

Tools == {"search", "rag_tool", "read_file_tool", "list_files_tool"}

\* tool_name.startswith('search')
StartsWithSearch(tool) == tool = "search"
\* 'rag' in tool_name
ContainsRag(tool) == tool = "rag_tool"

\* isinstance(doc, dict) and 'content' in doc and 'source' in doc
ValidDocument(doc) == doc.isDict /\ doc.hasContent /\ doc.hasSource

\* A filter that gives up the whole batch when one item does not conform
ValidDocumentsWholeBatch(items) ==
    IF \A i \in 1..Len(items) : ValidDocument(items[i]) THEN items ELSE <<>>

\* valid_documents: the conforming items, in order
RECURSIVE ValidDocuments(_)
ValidDocuments(items) ==
    IF items = <<>> THEN <<>>
    ELSE IF ValidDocument(Head(items))
         THEN <<Head(items)>> \o ValidDocuments(Tail(items))
         ELSE ValidDocuments(Tail(items))

\* A role passed through as the engine gave it
NormalRoleAsGiven(role) == role

\* the role written to a ChatHistoryItem
NormalRole(role) == IF role \in {"user", "assistant"} THEN role ELSE "assistant"

\* What one iteration of the `async for` loop does with a raw event: the
\* events it yields and the three accumulators afterwards.
HandleEvent(ev) ==
    LET same == [emit |-> <<>>, sources |-> accSources,
                 documents |-> accDocuments, chat |-> accChat]
        out == ev.output
    IN CASE ev.kind = "AgentStream" ->
              IF ev.delta # ""
              THEN [same EXCEPT !.emit = <<[Event("token") EXCEPT !.token = ev.delta]>>]
              ELSE same
         [] ev.kind = "ToolCallResult" /\ StartsWithSearch(ev.tool) ->
              IF out.shape = "dict" /\ out.hasContent /\ out.hasUrls
              THEN [same EXCEPT
                      !.sources = Append(accSources, out),
                      !.emit = <<[Event("sources") EXCEPT !.call = ev.call,
                                                          !.source = out]>>]
              ELSE same
         [] ev.kind = "ToolCallResult" /\ ContainsRag(ev.tool) ->
              IF out.shape = "list"
              THEN LET valid_documents == ValidDocuments(out.items)
                   IN [same EXCEPT
                         !.documents = accDocuments \o valid_documents,
                         !.emit = IF valid_documents # <<>>
                                  THEN <<[Event("documents") EXCEPT
                                             !.call = ev.call,
                                             !.items = valid_documents]>>
                                  ELSE <<>>]
              ELSE same
         [] ev.kind = "ToolCallResult" /\ ev.tool = "read_file_tool" ->
              LET success == /\ out.text.prefix # "File not found:"
                             /\ out.text.prefix # "Error reading file:"
              IN [same EXCEPT !.emit =
                    <<[Event("read_file") EXCEPT
                          !.call = ev.call,
                          !.success = success,
                          !.content = IF success THEN out.text ELSE NoText,
                          !.error = IF success THEN NoText ELSE out.text]>>]
         [] ev.kind = "ToolCallResult" /\ ev.tool = "list_files_tool" ->
              LET success == ~(/\ out.shape = "list"
                               /\ Len(out.lines) = 1
                               /\ out.lines[1].prefix = "Directory not found:")
              IN [same EXCEPT !.emit =
                    <<[Event("list_files") EXCEPT
                          !.call = ev.call,
                          !.success = success,
                          !.files = IF success THEN out.lines ELSE <<>>,
                          !.error = IF success THEN NoText ELSE out.lines[1]]>>]
         [] ev.kind = "AgentOutput" ->
              [same EXCEPT
                 !.chat = Append(accChat, ev.response),
                 !.emit = IF ev.response.hasKeys
                          THEN <<[Event("chat_history") EXCEPT
                                     !.item = Message(NormalRole(ev.response.role),
                                                      ev.response.content)]>>
                          ELSE <<>>]
         [] OTHER -> same


\* chat_history_items of the final event: one item per message whose dump
\* holds both keys, the role restricted to the two legal values
RECURSIVE ChatHistoryItems(_)
ChatHistoryItems(msgs) ==
    IF msgs = <<>> THEN <<>>
    ELSE IF Head(msgs).hasKeys
         THEN <<Message(NormalRole(Head(msgs).role), Head(msgs).content)>>
              \o ChatHistoryItems(Tail(msgs))
         ELSE ChatHistoryItems(Tail(msgs))

\* A final event that leaves the caller's input history out
FinalEventWithoutHistory ==
    [Event("final") EXCEPT
        !.chat_history = ChatHistoryItems(SubSeq(accChat, Len(history) + 1, Len(accChat))),
        !.documents = accDocuments,
        !.sources = accSources]

\* The final event built after the loop
FinalEvent ==
    [Event("final") EXCEPT !.chat_history = ChatHistoryItems(accChat),
                           !.documents = accDocuments,
                           !.sources = accSources]

\* The route's generator sends every event it is given as one JSON line
Deliver(events) == delivered \o events

\* The loop body on raw event ev, and the route sending what it yields
StreamStep(ev) ==
    LET h == HandleEvent(ev)
    IN /\ streamPc = "running"
       /\ rawCount < MaxFeed
       /\ rawCount' = rawCount + 1
       /\ accSources' = h.sources
       /\ accDocuments' = h.documents
       /\ accChat' = h.chat
       /\ emitted' = emitted \o h.emit
       /\ delivered' = Deliver(h.emit)
       /\ UNCHANGED <<streamPc, history>>

\* The inputs of the engine
Deltas == {"", "tok"}
Roles == {"assistant", "user", "tool"}

SearchOutputs ==
    {[Output("dict") EXCEPT !.hasContent = TRUE, !.hasUrls = TRUE, !.id = "s1"],
     [Output("dict") EXCEPT !.hasContent = TRUE, !.id = "s2"],
     Output("str")}

D1 == Item(TRUE, TRUE, TRUE, "d1")
D2 == Item(TRUE, TRUE, TRUE, "d2")
NoSourceItem == Item(TRUE, TRUE, FALSE, "x1")
NoContentItem == Item(TRUE, FALSE, TRUE, "x2")

RagOutputs ==
    {[Output("list") EXCEPT !.items = its] :
        its \in {<<>>, <<D1>>, <<NoSourceItem>>, <<D1, NoSourceItem>>,
                 <<NoSourceItem, D2>>, <<D2, D1>>, <<NoContentItem>>}}
    \cup {Output("str")}

ReadOutputs ==
    {[Output("str") EXCEPT !.text = t] :
        t \in {Text("", "body", "content"),
               Text("File not found:", "p", "sentinel"),
               Text("Error reading file:", "e", "sentinel"),
               Text("File not found:", "body", "content")}}

ListOutputs ==
    {[Output("list") EXCEPT !.lines = ls] :
        ls \in {<<>>, <<Text("", "f1", "content")>>,
                <<Text("Directory not found:", "d", "sentinel")>>,
                <<Text("", "f1", "content"), Text("", "f2", "content")>>}}

OutputsOf(tool) ==
    CASE tool = "search" -> SearchOutputs
      [] tool = "rag_tool" -> RagOutputs
      [] tool = "read_file_tool" -> ReadOutputs
      [] OTHER -> ListOutputs

\* The engine streams a piece of answer text
RawAgentStream(delta) ==
    StreamStep([Raw("AgentStream") EXCEPT !.delta = delta])
    /\ UNCHANGED <<calls, finished>>

\* The engine announces a tool invocation (ToolCall): no branch of the
\* loop looks at it.
RawToolCall(tool) ==
    /\ StreamStep([Raw("ToolCall") EXCEPT !.tool = tool, !.call = Len(calls) + 1])
    /\ calls' = Append(calls, tool)
    /\ UNCHANGED finished

\* The engine reports the result of an invocation it announced
RawToolCallResult(call, output) ==
    /\ call \in 1..Len(calls)
    /\ call \notin finished
    /\ output \in OutputsOf(calls[call])
    /\ StreamStep([Raw("ToolCallResult") EXCEPT !.tool = calls[call], !.call = call,
                                                !.output = output])
    /\ finished' = finished \cup {call}
    /\ UNCHANGED calls

\* The engine produces a turn (AgentOutput)
RawAgentOutput(role, hasKeys) ==
    StreamStep([Raw("AgentOutput") EXCEPT !.response = ChatMessage(role, "c", hasKeys)])
    /\ UNCHANGED <<calls, finished>>

\* The raw feed is exhausted: the loop ends, the final event is yielded
\* and the generator returns.
FeedEnds ==
    /\ streamPc = "running"
    /\ streamPc' = "done"
    /\ emitted' = Append(emitted, FinalEvent)
    /\ delivered' = Deliver(<<FinalEvent>>)
    /\ UNCHANGED <<rawCount, calls, finished, history, accSources, accDocuments, accChat>>

\* The raw feed raises: nothing in async_agent_stream catches it, so the
\* generator ends there; the route's except clause sends an error event.
FeedRaises ==
    /\ streamPc = "running"
    /\ streamPc' = "raised"
    /\ delivered' = Deliver(<<Event("error")>>)
    /\ UNCHANGED <<rawCount, calls, finished, history, accSources, accDocuments,
                   accChat, emitted>>

\* A generator that still yields its final event when it is closed
ConsumerLeavesFlushing ==
    /\ streamPc = "running"
    /\ streamPc' = "abandoned"
    /\ emitted' = Append(emitted, FinalEvent)
    /\ UNCHANGED <<rawCount, calls, finished, history, accSources, accDocuments,
                   accChat, delivered>>

\* The client goes away: the generator is closed where it stands
ConsumerLeaves ==
    /\ streamPc = "running"
    /\ streamPc' = "abandoned"
    /\ UNCHANGED <<rawCount, calls, finished, history, accSources, accDocuments,
                   accChat, emitted, delivered>>

\* The histories a request may carry (the route admits the two legal roles)
Histories == {<<>>, <<ChatMessage("user", "q0", TRUE), ChatMessage("assistant", "a0", TRUE)>>}

\* async_agent_stream up to `handler = agent.run(...)`
StreamInit ==
    /\ streamPc = "running"
    /\ rawCount = 0
    /\ calls = <<>>
    /\ finished = {}
    /\ history \in Histories
    /\ accSources = <<>>
    /\ accDocuments = <<>>
    /\ accChat = history
    /\ emitted = <<>>
    /\ delivered = <<>>


\* ------------------------------------------------------------------------
\* The process-wide embedding model: Settings.embed_model
\* ------------------------------------------------------------------------

\* How many service calls may be in progress at once
NumTasks == 2

Tasks == 1..NumTasks

\* The value Settings.embed_model has when the process starts
OriginalEmbedModel == "settings-default"

\* The calls that swap Settings.embed_model around their engine calls:
\* create_rag and _load_index do it once, add_url_to_rag does it in the
\* _load_index it calls and once more around its insert.
EmbedOps == {"create_rag", "_load_index", "add_url_to_rag"}

Sections(op) == IF op = "add_url_to_rag" THEN 2 ELSE 1

VARIABLES
    settingsEmbed, \* Settings.embed_model
    taskPc,        \* taskPc[t]: "idle", "start", "saved", "set", "used"
    taskOp,        \* taskOp[t]: the call task t runs
    taskRag,       \* taskRag[t]: the instance it runs on
    taskLeft,      \* taskLeft[t]: the save/set/use/restore sections left
    taskEmbed,     \* taskEmbed[t]: its local embed_model
    taskOriginal,  \* taskOriginal[t]: its local original_embed_model
    lastUse        \* the latest engine call: its instance and the model in force

embedVars == <<settingsEmbed, taskPc, taskOp, taskRag, taskLeft, taskEmbed,
               taskOriginal, lastUse>>

\* No engine call yet
NoUse == [rag |-> "", model |-> ""]

\* OpenAIEmbedding(model=config.embedding_model) for the instance's config
EmbedModelOf(n) == LoadRagConfig(configFile[n]).config.embedding_model

\* A task enters one of the calls on an instance whose config it loads
TaskBegin(t, op, n) ==
    /\ taskPc[t] = "idle"
    /\ taskPc' = [taskPc EXCEPT ![t] = "start"]
    /\ taskOp' = [taskOp EXCEPT ![t] = op]
    /\ taskRag' = [taskRag EXCEPT ![t] = n]
    /\ taskLeft' = [taskLeft EXCEPT ![t] = Sections(op)]
    /\ taskEmbed' = [taskEmbed EXCEPT ![t] = EmbedModelOf(n)]
    /\ UNCHANGED <<settingsEmbed, taskOriginal, lastUse>>

\* original_embed_model = Settings.embed_model
TaskSave(t) ==
    /\ taskPc[t] = "start"
    /\ taskPc' = [taskPc EXCEPT ![t] = "saved"]
    /\ taskOriginal' = [taskOriginal EXCEPT ![t] = settingsEmbed]
    /\ UNCHANGED <<settingsEmbed, taskOp, taskRag, taskLeft, taskEmbed, lastUse>>

\* Settings.embed_model = embed_model
TaskSet(t) ==
    /\ taskPc[t] = "saved"
    /\ taskPc' = [taskPc EXCEPT ![t] = "set"]
    /\ settingsEmbed' = taskEmbed[t]
    /\ UNCHANGED <<taskOp, taskRag, taskLeft, taskEmbed, taskOriginal, lastUse>>

\* The engine call inside the try block (from_documents, load_index_from_storage,
\* insert): it embeds with the Settings.embed_model in force; it may raise.
TaskUse(t, raises) ==
    /\ taskPc[t] = "set"
    /\ taskPc' = [taskPc EXCEPT ![t] = "used"]
    /\ lastUse' = IF raises THEN lastUse
                  ELSE [rag |-> taskRag[t], model |-> settingsEmbed]
    /\ taskLeft' = [taskLeft EXCEPT ![t] = IF raises THEN 1 ELSE @]
    /\ UNCHANGED <<settingsEmbed, taskOp, taskRag, taskEmbed, taskOriginal>>

\* finally: Settings.embed_model = original_embed_model.  After its last
\* section the call returns and its locals are gone.
TaskRestore(t) ==
    LET returns == taskLeft[t] <= 1
    IN /\ taskPc[t] = "used"
       /\ settingsEmbed' = taskOriginal[t]
       /\ taskLeft' = [taskLeft EXCEPT ![t] = @ - 1]
       /\ taskPc' = [taskPc EXCEPT ![t] = IF returns THEN "idle" ELSE "start"]
       /\ taskOp' = [taskOp EXCEPT ![t] = IF returns THEN "_load_index" ELSE @]
       /\ taskRag' = [taskRag EXCEPT ![t] = IF returns THEN "docs1" ELSE @]
       /\ taskEmbed' = [taskEmbed EXCEPT ![t] = IF returns THEN OriginalEmbedModel ELSE @]
       /\ taskOriginal' = [taskOriginal EXCEPT ![t] = IF returns THEN OriginalEmbedModel ELSE @]
       /\ UNCHANGED lastUse

EmbedInit ==
    /\ settingsEmbed = OriginalEmbedModel
    /\ taskPc = [t \in Tasks |-> "idle"]
    /\ taskOp = [t \in Tasks |-> "_load_index"]
    /\ taskRag = [t \in Tasks |-> "docs1"]
    /\ taskLeft = [t \in Tasks |-> 0]
    /\ taskEmbed = [t \in Tasks |-> OriginalEmbedModel]
    /\ taskOriginal = [t \in Tasks |-> OriginalEmbedModel]
    /\ lastUse = NoUse

\* ------------------------------------------------------------------------
\* The glob filter functions on their own
\* ------------------------------------------------------------------------

\* How many file names one call is given
MaxFiles == 2

GlobFiles == {"a.txt", "b.json", "s/a.txt"}
GlobPatterns == {"**/*", "*.txt", "*.json", "a*", "s/*"}

FileLists == UNION {[1..k -> GlobFiles] : k \in 0..MaxFiles}

PatternLists ==
    {<<>>} \cup {<<p>> : p \in GlobPatterns}
           \cup {<<p, q>> : p \in GlobPatterns, q \in GlobPatterns}

VARIABLES
    gFiles,    \* the files argument
    gInclude,  \* the include_globs argument
    gExclude,  \* the exclude_globs argument
    gResult,   \* what filter_files_by_globs returned
    gDone      \* the call has returned

globVars == <<gFiles, gInclude, gExclude, gResult, gDone>>

GlobInit ==
    /\ gFiles \in FileLists
    /\ gInclude \in PatternLists
    /\ gExclude \in PatternLists
    /\ gResult = <<>>
    /\ gDone = FALSE

\* filtered_files = filter_files_by_globs(files, include, exclude)
CallFilterFiles ==
    /\ ~gDone
    /\ gResult' = filter_files_by_globs(gFiles, gInclude, gExclude)
    /\ gDone' = TRUE
    /\ UNCHANGED <<gFiles, gInclude, gExclude>>

\* The rules a source may have in file_filters: none, a full rule, a rule
\* lacking one of its keys.
SampleRules ==
    {NoRule,
     Rule(<<"*.txt">>, <<"a*">>),
     [Rule(<<>>, <<"*.json">>) EXCEPT !.hasInclude = FALSE],
     [Rule(<<"*.md">>, <<>>) EXCEPT !.hasExclude = FALSE]}

VARIABLES
    fFilters,  \* the config's file_filters
    fPath,     \* the path_name argument
    fRule,     \* what get_file_filters_for_path returned
    fDone      \* the call has returned

filterVars == <<fFilters, fPath, fRule, fDone>>

FiltersInit ==
    /\ fFilters \in [SourceNames -> SampleRules]
    /\ fPath \in SourceNames
    /\ fRule = [include |-> <<>>, exclude |-> <<>>]
    /\ fDone = FALSE

\* filters = config.get_file_filters_for_path(path_name)
CallGetFileFilters ==
    /\ ~fDone
    /\ fRule' = get_file_filters_for_path(fFilters, fPath)
    /\ fDone' = TRUE
    /\ UNCHANGED <<fFilters, fPath>>


\* ------------------------------------------------------------------------
\* Calls in progress on one index directory: create_rag and delete_rag
\* ------------------------------------------------------------------------

\* The files storage_context.persist writes into data/indices/<rag_name>/,
\* in the order it writes them
IndexFiles == <<"docstore.json", "index_store.json", "default__vector_store.json">>

IndexFileSet == {IndexFiles[k] : k \in 1..Len(IndexFiles)}

VARIABLES
    raceDir,    \* data/indices/<rag_name>/ exists
    raceFiles,  \* raceFiles[f]: the task whose persist wrote file f (0: no file)
    racePc,     \* racePc[t]: "idle", "check", "unlink", "persist", "rmdir",
                \*            "returned", "raised"
    raceOp,     \* raceOp[t]: the call task t runs
    raceTodo    \* raceTodo[t]: the children its loop has still to visit; during
                \*              persist, the files it has written

raceVars == <<raceDir, raceFiles, racePc, raceOp, raceTodo>>

RaceInit ==
    /\ raceDir = FALSE
    /\ raceFiles = [f \in IndexFileSet |-> 0]
    /\ racePc = [t \in Tasks |-> "idle"]
    /\ raceOp = [t \in Tasks |-> "create_rag"]
    /\ raceTodo = [t \in Tasks |-> {}]

\* The children of the index directory
IndexChildren == {f \in IndexFileSet : raceFiles[f] # 0}

\* A caller starts create_rag (or a reindex) or delete_rag on the instance;
\* nothing in the service makes one call wait for another.
RaceBegin(t, op) ==
    /\ racePc[t] = "idle"
    /\ racePc' = [racePc EXCEPT ![t] = "check"]
    /\ raceOp' = [raceOp EXCEPT ![t] = op]
    /\ UNCHANGED <<raceDir, raceFiles, raceTodo>>

\* create_rag: `if persist_dir.exists()` starts the loop over its children,
\* else the directory is made
CreateCheck(t) ==
    /\ racePc[t] = "check" /\ raceOp[t] = "create_rag"
    /\ raceDir' = TRUE
    /\ raceTodo' = [raceTodo EXCEPT ![t] = IF raceDir THEN IndexChildren ELSE {}]
    /\ racePc' = [racePc EXCEPT ![t] = IF raceDir /\ IndexChildren # {}
                                       THEN "unlink" ELSE "persist"]
    /\ UNCHANGED <<raceFiles, raceOp>>

\* create_rag: child.unlink() for one child of the loop; it raises
\* FileNotFoundError when the child is gone
CreateUnlink(t, f) ==
    /\ racePc[t] = "unlink" /\ raceOp[t] = "create_rag"
    /\ f \in raceTodo[t]
    /\ raceTodo' = [raceTodo EXCEPT ![t] = @ \ {f}]
    /\ raceFiles' = [raceFiles EXCEPT ![f] = 0]
    /\ racePc' = [racePc EXCEPT ![t] =
                     CASE raceFiles[f] = 0 -> "raised"
                       [] raceTodo[t] = {f} -> "persist"
                       [] OTHER -> "unlink"]
    /\ UNCHANGED <<raceDir, raceOp>>

\* create_rag: index.storage_context.persist writes the next file (making
\* the directory when it is missing); after the last one the call returns.
CreateWrite(t, k) ==
    /\ racePc[t] = "persist" /\ raceOp[t] = "create_rag"
    /\ k \in 1..Len(IndexFiles)
    /\ raceTodo[t] = {IndexFiles[j] : j \in 1..(k - 1)}
    /\ raceDir' = TRUE
    /\ raceFiles' = [raceFiles EXCEPT ![IndexFiles[k]] = t]
    /\ raceTodo' = [raceTodo EXCEPT ![t] = IF k = Len(IndexFiles) THEN {}
                                           ELSE @ \cup {IndexFiles[k]}]
    /\ racePc' = [racePc EXCEPT ![t] = IF k = Len(IndexFiles) THEN "returned"
                                       ELSE "persist"]
    /\ UNCHANGED raceOp

\* delete_rag: FileNotFoundError when the index directory is missing, else
\* the loop over its children starts
DeleteCheck(t) ==
    /\ racePc[t] = "check" /\ raceOp[t] = "delete_rag"
    /\ raceTodo' = [raceTodo EXCEPT ![t] = IF raceDir THEN IndexChildren ELSE {}]
    /\ racePc' = [racePc EXCEPT ![t] =
                     CASE ~raceDir -> "raised"
                       [] IndexChildren = {} -> "rmdir"
                       [] OTHER -> "unlink"]
    /\ UNCHANGED <<raceDir, raceFiles, raceOp>>

\* delete_rag: `if child.is_file(): child.unlink()` for one child
DeleteUnlink(t, f) ==
    /\ racePc[t] = "unlink" /\ raceOp[t] = "delete_rag"
    /\ f \in raceTodo[t]
    /\ raceTodo' = [raceTodo EXCEPT ![t] = @ \ {f}]
    /\ raceFiles' = [raceFiles EXCEPT ![f] = 0]
    /\ racePc' = [racePc EXCEPT ![t] = IF raceTodo[t] = {f} THEN "rmdir" ELSE "unlink"]
    /\ UNCHANGED <<raceDir, raceOp>>

\* delete_rag: index_path.rmdir() raises when the directory is gone or is
\* not empty; else the directory is removed and the call goes on to the
\* files root, the config and the summary, and returns.
DeleteRmdir(t) ==
    /\ racePc[t] = "rmdir" /\ raceOp[t] = "delete_rag"
    /\ raceDir' = IF IndexChildren = {} THEN FALSE ELSE raceDir
    /\ racePc' = [racePc EXCEPT ![t] = IF raceDir /\ IndexChildren = {}
                                       THEN "returned" ELSE "raised"]
    /\ UNCHANGED <<raceFiles, raceOp, raceTodo>>


\* ------------------------------------------------------------------------
\* Specifications
\* ------------------------------------------------------------------------

vars == <<lifeVars, streamVars, embedVars, globVars, filterVars, raceVars>>

\* The parts of the state a specification does not exercise stay as they
\* are when the process starts.
StreamIdle ==
    /\ streamPc = "abandoned" /\ rawCount = 0 /\ calls = <<>> /\ finished = {}
    /\ history = <<>> /\ accSources = <<>> /\ accDocuments = <<>> /\ accChat = <<>>
    /\ emitted = <<>> /\ delivered = <<>>

GlobIdle ==
    /\ gFiles = <<>> /\ gInclude = <<>> /\ gExclude = <<>> /\ gResult = <<>>
    /\ gDone = TRUE

FiltersIdle ==
    /\ fFilters = NoFilters /\ fPath = "_base"
    /\ fRule = [include |-> <<>>, exclude |-> <<>>] /\ fDone = TRUE

\* The instance the detailed specifications act on
LifeNames == {"docs1"}

\* The exclude patterns a symlink request may carry
RequestPatterns == {<<>>, <<"*.md">>}

\* A body naming one field of the config
PromptBody == Body({"system_prompt"})

\* The requests of the lifecycle: files, folders, links, URLs, create,
\* reindex and delete, and a config update
\* A request of the lifecycle touches nothing else
OnlyLife == UNCHANGED <<streamVars, embedVars, globVars, filterVars, raceVars>>

LifeNext ==
    \/ \E n \in LifeNames, fail \in CreateFailures : CreateRagReq(n, fail) /\ OnlyLife
    \/ \E n \in LifeNames, fail \in CreateFailures : ReindexReq(n, fail) /\ OnlyLife
    \/ \E n \in LifeNames : DeleteRagReq(n) /\ OnlyLife
    \/ ListRagsReq /\ OnlyLife
    \/ \E n \in LifeNames, f \in FileNames : SaveFileReq(n, f) /\ OnlyLife
    \/ \E n \in LifeNames, e \in EntryNames : DeleteFileReq(n, e) /\ OnlyLife
    \/ \E n \in LifeNames, d \in FolderNames : CreateFolderReq(n, d, <<>>, <<>>) /\ OnlyLife
    \/ \E n \in LifeNames, t \in TargetPaths, l \in LinkNames, exc \in RequestPatterns :
           CreateSymlinkReq(n, t, l, <<>>, exc) /\ OnlyLife
    \/ \E n \in LifeNames, u \in Urls, fail \in UrlFailures : AddUrlReq(n, u, fail) /\ OnlyLife
    \/ \E n \in LifeNames, u \in Urls : RemoveUrlReq(n, u) /\ OnlyLife
    \/ \E n \in LifeNames : GetConfigReq(n) /\ OnlyLife
    \/ \E n \in LifeNames : UpdateConfigReq(n, PromptBody) /\ OnlyLife

Init == LifeInit /\ StreamIdle /\ EmbedInit /\ GlobIdle /\ FiltersIdle /\ RaceInit

Spec == Init /\ [][LifeNext]_vars


\* ---- the config store: reads, updates and a file edited from outside ----

EmptyBody == Body({})
UnknownBody == Body({"unknown"})
\* Bodies whose merged record does not validate: a number where the model
\* name belongs, a list where the filter mapping belongs
IllTypedBody == [Body({"chat_model"}) EXCEPT !.chat_model = NotAString]
IllFiltersBody == [Body({"file_filters"}) EXCEPT !.filters_typed = FALSE]
UpdateBodies ==
    {EmptyBody, UnknownBody, PromptBody, Body({"chat_model", "unknown"}),
     Body({"file_filters", "embedding_model"}), IllTypedBody, IllFiltersBody}

\* What the config file may hold after an edit from outside: nothing, text
\* that is not JSON, a JSON array, an object lacking keys, an object with a
\* wrongly typed field.
PartialFile == [NoFile EXCEPT !.state = "object", !.system_prompt = "custom"]
IllTypedFile == [to_dict(DefaultConfig) EXCEPT !.chat_model = NotAString]
EditedFiles == {NoFile, MalformedFile, NonObjectFile, PartialFile, IllTypedFile}

ConfigNext ==
    \/ \E n \in LifeNames : CreateRagReq(n, "none") /\ OnlyLife
    \/ \E n \in LifeNames : DeleteRagReq(n) /\ OnlyLife
    \/ \E n \in LifeNames : GetConfigReq(n) /\ OnlyLife
    \/ \E n \in LifeNames, body \in UpdateBodies : UpdateConfigReq(n, body) /\ OnlyLife
    \/ \E n \in LifeNames, content \in EditedFiles : EditConfigFile(n, content) /\ OnlyLife
    \/ \E n \in LifeNames, t \in TargetPaths, l \in LinkNames, exc \in RequestPatterns :
           CreateSymlinkReq(n, t, l, <<>>, exc) /\ OnlyLife

SpecConfig == Init /\ [][ConfigNext]_vars


\* ---- one streamed query ----

OnlyStream == UNCHANGED <<lifeVars, embedVars, globVars, filterVars, raceVars>>

StreamNext ==
    \/ \E delta \in Deltas : RawAgentStream(delta) /\ OnlyStream
    \/ \E tool \in Tools : RawToolCall(tool) /\ OnlyStream
    \/ \E call \in 1..Len(calls) : \E output \in OutputsOf(calls[call]) :
           RawToolCallResult(call, output) /\ OnlyStream
    \/ \E role \in Roles, hasKeys \in BOOLEAN : RawAgentOutput(role, hasKeys) /\ OnlyStream
    \/ FeedEnds /\ OnlyStream
    \/ FeedRaises /\ OnlyStream
    \/ ConsumerLeaves /\ OnlyStream

InitStream == LifeInit /\ StreamInit /\ EmbedInit /\ GlobIdle /\ FiltersIdle /\ RaceInit

SpecStream == InitStream /\ [][StreamNext]_vars


\* ---- service calls running at once on two instances ----

SmallEmbeddingModel == "text-embedding-3-small"

\* Two instances exist; the second one's config names the default embedding
\* model or another one.
EmbedLifeInit ==
    /\ filesRoot = [n \in Names |-> TRUE]
    /\ entries = [n \in Names |-> NoEntries]
    /\ indexDir = [n \in Names |-> TRUE]
    /\ indexDocs = [n \in Names |-> {}]
    /\ \E m \in {DefaultEmbeddingModel, SmallEmbeddingModel} :
          configFile = [n \in Names |->
                          IF n = "docs2"
                          THEN to_dict([DefaultConfig EXCEPT !.embedding_model = m])
                          ELSE to_dict(DefaultConfig)]
    /\ summaryFile = [n \in Names |-> TRUE]
    /\ last = Answer("init", "", 0, "none")

OnlyEmbed == UNCHANGED <<lifeVars, streamVars, globVars, filterVars, raceVars>>

EmbedNext ==
    \/ \E t \in Tasks, op \in EmbedOps, n \in Names : TaskBegin(t, op, n) /\ OnlyEmbed
    \/ \E t \in Tasks : TaskSave(t) /\ OnlyEmbed
    \/ \E t \in Tasks : TaskSet(t) /\ OnlyEmbed
    \/ \E t \in Tasks, raises \in BOOLEAN : TaskUse(t, raises) /\ OnlyEmbed
    \/ \E t \in Tasks : TaskRestore(t) /\ OnlyEmbed

InitEmbed == EmbedLifeInit /\ StreamIdle /\ EmbedInit /\ GlobIdle /\ FiltersIdle /\ RaceInit

SpecEmbed == InitEmbed /\ [][EmbedNext]_vars


\* ---- the filter functions called on their own ----

GlobNext ==
    CallFilterFiles /\ UNCHANGED <<lifeVars, streamVars, embedVars, filterVars, raceVars>>

InitGlob == LifeInit /\ StreamIdle /\ EmbedInit /\ GlobInit /\ FiltersIdle /\ RaceInit

SpecGlob == InitGlob /\ [][GlobNext]_vars

FiltersNext ==
    CallGetFileFilters /\ UNCHANGED <<lifeVars, streamVars, embedVars, globVars, raceVars>>

InitFilters == LifeInit /\ StreamIdle /\ EmbedInit /\ GlobIdle /\ FiltersInit /\ RaceInit

SpecFilters == InitFilters /\ [][FiltersNext]_vars


\* ---- two calls in progress on one instance ----

RaceOps == {"create_rag", "delete_rag"}

OnlyRace == UNCHANGED <<lifeVars, streamVars, embedVars, globVars, filterVars>>

RaceNext ==
    \/ \E t \in Tasks, op \in RaceOps : RaceBegin(t, op) /\ OnlyRace
    \/ \E t \in Tasks : CreateCheck(t) /\ OnlyRace
    \/ \E t \in Tasks, f \in IndexFileSet : CreateUnlink(t, f) /\ OnlyRace
    \/ \E t \in Tasks, k \in 1..Len(IndexFiles) : CreateWrite(t, k) /\ OnlyRace
    \/ \E t \in Tasks : DeleteCheck(t) /\ OnlyRace
    \/ \E t \in Tasks, f \in IndexFileSet : DeleteUnlink(t, f) /\ OnlyRace
    \/ \E t \in Tasks : DeleteRmdir(t) /\ OnlyRace

SpecRace == Init /\ [][RaceNext]_vars


\* ------------------------------------------------------------------------
\* Properties
\* ------------------------------------------------------------------------

\* C1: a run of async_agent_stream that was read to its end, whether the raw
\* feed was exhausted or raised, has emitted exactly one final event, and
\* that event is the last one emitted.
C1_FinalOnceAndLast ==
    streamPc \in {"done", "raised"} =>
        /\ emitted # <<>>
        /\ emitted[Len(emitted)].type = "final"
        /\ \A i \in 1..(Len(emitted) - 1) : emitted[i].type # "final"

\* The events that carry the result of a tool invocation
ResultTypes == {"sources", "documents", "read_file", "list_files"}

\* C2: every result event emitted in a run is preceded by a tool_call event
\* of the same invocation.
C2_ToolCallBeforeResult ==
    \A i \in 1..Len(emitted) :
        emitted[i].type \in ResultTypes =>
            \E j \in 1..(i - 1) : /\ emitted[j].type = "tool_call"
                                  /\ emitted[j].call = emitted[i].call

\* C3: once delete_rag has been called on an instance whose index directory
\* existed (the call did not end in NotFound), the files root, the index
\* directory, the config file and the summary file of the instance are gone
\* and list_rags does not return its name.
C3_DeleteRemovesEverything ==
    (last.op = "delete_rag" /\ last.exc # "FileNotFoundError") =>
        /\ ~filesRoot[last.name]
        /\ ~indexDir[last.name]
        /\ configFile[last.name] = NoFile
        /\ ~summaryFile[last.name]
        /\ last.name \notin list_rags

\* C4: delete_rag on a name without an index directory is answered 404 from
\* a FileNotFoundError and leaves the files root, its entries, the config
\* file and the summary file of that name as they were.
C4_DeleteMissingIsNotFound ==
    [][\A n \in Names :
          (DeleteRagReq(n) /\ ~indexDir[n]) =>
              /\ last'.status = 404
              /\ last'.exc = "FileNotFoundError"
              /\ filesRoot'[n] = filesRoot[n]
              /\ entries'[n] = entries[n]
              /\ configFile'[n] = configFile[n]
              /\ summaryFile'[n] = summaryFile[n]]_vars

\* C4, its case: a delete was answered 404 for a name that has a files
\* root holding a file, a config file and no index directory.
C4_Witness ==
    /\ last.op = "delete_rag" /\ last.status = 404
    /\ ~indexDir[last.name]
    /\ filesRoot[last.name]
    /\ entries[last.name]["a.txt"] = "file"
    /\ configFile[last.name].state = "object"

\* The web documents of a set of index documents
WebDocs(docs) == {d \in docs : d.web}

\* C5: a create_rag run that succeeds on an instance whose index holds web
\* documents leaves every one of them in the index.
C5_ReindexKeepsWebDocs ==
    [][\A n \in Names :
          (last'.op \in {"create_rag", "reindex"} /\ last'.name = n /\ last'.status = 200) =>
              WebDocs(indexDocs[n]) \subseteq indexDocs'[n]]_vars

\* C6: create_rag on an instance with no entry in its files root and no
\* indexed document, with an engine that does not fail, persists an empty
\* index, answers without error, asks for no summary and writes no summary
\* file.
C6_EmptyCreateSkipsSummary ==
    [][\A n \in Names :
          (CreateRagReq(n, "none") /\ entries[n] = NoEntries /\ indexDocs[n] = {}) =>
              /\ indexDir'[n]
              /\ indexDocs'[n] = {}
              /\ n \in list_rags'
              /\ last'.status = 200
              /\ ~last'.summarized
              /\ summaryFile'[n] = summaryFile[n]]_vars

\* C7: when the two instances are configured with different embedding
\* models, every engine call (build, load, insert) made for an instance runs
\* with the embedding model of that instance's config.
C7_OwnEmbeddingModel ==
    (EmbedModelOf("docs1") # EmbedModelOf("docs2") /\ lastUse # NoUse) =>
        lastUse.model = EmbedModelOf(lastUse.rag)

\* C8: no name returned by filter_files_by_globs matches an exclude pattern.
C8_ExcludedNeverReturned ==
    gDone => \A i \in 1..Len(gResult) : ~MatchesAny(gResult[i], gExclude)

\* C8, its case: a call returned some name and dropped a name that matches
\* both an include and an exclude pattern.
C8_Witness ==
    /\ gDone
    /\ gResult # <<>>
    /\ \E i \in 1..Len(gFiles) :
          /\ MatchesAny(gFiles[i], gInclude)
          /\ MatchesAny(gFiles[i], gExclude)
          /\ \A k \in 1..Len(gResult) : gResult[k] # gFiles[i]

\* C9: for a source name without an entry in file_filters,
\* get_file_filters_for_path returns include ['**/*'] and exclude [].
C9_DefaultRule ==
    (fDone /\ ~fFilters[fPath].present) =>
        fRule = [include |-> <<"**/*">>, exclude |-> <<>>]

\* C9, its case: the call returned for a source without an entry in a
\* file_filters that holds a rule for another source.
C9_Witness ==
    /\ fDone
    /\ ~fFilters[fPath].present
    /\ \E s \in SourceNames : fFilters[s].present /\ fFilters[s].hasInclude

\* C10 as stated: an update request naming no config field leaves the
\* config file unchanged, whatever it held, and is answered 'No changes
\* provided'.
C10_EmptyUpdateChangesNothing ==
    [][\A n \in Names, body \in UpdateBodies :
          (UpdateConfigReq(n, body) /\ body.keys \cap AllowedKeys = {}) =>
              /\ configFile' = configFile
              /\ last'.status = 200
              /\ last'.detail = "No changes provided"]_vars

\* C10 amended: an update request naming no config field leaves a config
\* file that holds JSON unchanged, and replaces a missing or unparseable one
\* by the default config; it is answered 500 when the file holds JSON that
\* is not an object, else 400 when the body is empty, else 200 'No changes
\* provided'.
C10_EmptyUpdateKeepsParsedFile ==
    [][\A n \in Names, body \in UpdateBodies :
          (UpdateConfigReq(n, body) /\ body.keys \cap AllowedKeys = {}) =>
              /\ configFile[n].state \in {"object", "nonobject"} =>
                    configFile' = configFile
              /\ configFile[n].state \in {"absent", "malformed"} =>
                    configFile' = [configFile EXCEPT ![n] = to_dict(DefaultConfig)]
              /\ configFile[n].state = "nonobject" =>
                    (last'.status = 500 /\ last'.exc = "AttributeError")
              /\ (configFile[n].state # "nonobject" /\ body.keys = {}) =>
                    (last'.status = 400 /\ last'.detail = "Invalid configuration")
              /\ (configFile[n].state # "nonobject" /\ body.keys # {}) =>
                    (last'.status = 200 /\ last'.detail = "No changes provided")]_vars

\* C10, its case: an update was answered 'No changes provided' and the
\* config file still holds an object that lacks keys.
C10_Witness ==
    /\ last.op = "update_config"
    /\ last.detail = "No changes provided"
    /\ configFile[last.name] = PartialFile


\* C11: every update-config request for an instance whose index directory
\* does not exist is answered 404, whatever the body holds (valid fields, an
\* empty body, only unknown keys).
C11_UpdateMissingIsNotFound ==
    [][\A n \in Names : \A body \in UpdateBodies :
          (UpdateConfigReq(n, body) /\ ~indexDir[n])
              => (last'.op = "update_config" => last'.status = 404)]_vars


\* The merged record of an update names an allowed field and does not
\* validate
MergedInvalid(n, body) ==
    /\ body.keys \cap AllowedKeys # {}
    /\ ~model_validate(model_copy(LoadRagConfig(configFile[n]).config, body), body)

ConfigFields == {"chat_model", "embedding_model", "system_prompt", "file_filters"}

CorruptFiles == {MalformedFile, NonObjectFile, IllTypedFile}

\* C14: reading the config of an instance whose stored config file cannot
\* be parsed or validated never fails the caller: the read returns the
\* default config and the stored file is replaced by the defaults.
C14_CorruptReadHeals ==
    [][\A n \in Names :
          (GetConfigReq(n) /\ configFile[n] \in CorruptFiles)
              => /\ last'.exc = "none"
                 /\ LoadRagConfig(configFile[n]).config = DefaultConfig
                 /\ configFile'[n] = to_dict(DefaultConfig)]_vars


\* C15: a get-config request for an instance that does not exist (no index
\* directory) is answered 404.
C15_GetMissingIsNotFound ==
    [][\A n \in Names :
          (GetConfigReq(n) /\ ~indexDir[n]) => last'.status = 404]_vars


\* ---- the listing, on whatever data directory the service is started on ----

\* RAGService.__init__ makes the four directories of the data directory and
\* keeps what they hold: each name may have its index directory, its files
\* root, its config file and its summary, independently.
InitList ==
    /\ filesRoot \in [Names -> BOOLEAN]
    /\ indexDir \in [Names -> BOOLEAN]
    /\ configFile \in [Names -> {NoFile, to_dict(DefaultConfig)}]
    /\ summaryFile \in [Names -> BOOLEAN]
    /\ entries = [n \in Names |-> NoEntries]
    /\ indexDocs = [n \in Names |-> {}]
    /\ last = Answer("init", "", 0, "none")
    /\ StreamIdle /\ EmbedInit /\ GlobIdle /\ FiltersIdle /\ RaceInit

ListNext ==
    \/ ListRagsReq /\ OnlyLife
    \/ \E n \in Names : CreateRagReq(n, "none") /\ OnlyLife
    \/ \E n \in Names : DeleteRagReq(n) /\ OnlyLife
    \/ \E n \in Names : GetConfigReq(n) /\ OnlyLife

SpecList == InitList /\ [][ListNext]_vars

\* C16: list_rags returns exactly the names whose index directory exists: a
\* name with an index directory but no files root is listed, and a name
\* with a files root, a config or a summary but no index directory is not.
C16_ListedIffIndexDir ==
    last.op = "list_rags" =>
        /\ last.listed = {n \in Names : indexDir[n]}
        /\ \A n \in Names :
              /\ (indexDir[n] /\ ~filesRoot[n]) => n \in last.listed
              /\ (~indexDir[n] /\ (filesRoot[n] \/ summaryFile[n]
                                     \/ configFile[n].state # "absent"))
                     => n \notin last.listed

\* A listing that holds a name without files root and leaves out a name
\* that has files root, config and summary but no index directory
C16_Witness ==
    /\ last.op = "list_rags"
    /\ \E n \in Names : indexDir[n] /\ ~filesRoot[n] /\ n \in last.listed
    /\ \E n \in Names : /\ ~indexDir[n] /\ filesRoot[n] /\ summaryFile[n]
                        /\ configFile[n].state = "object"
                        /\ n \notin last.listed


\* ---- the files root: uploads, folders, links and deletions ----

FilesRootNext ==
    \/ \E n \in LifeNames : CreateRagReq(n, "none") /\ OnlyLife
    \/ ListRagsReq /\ OnlyLife
    \/ \E n \in LifeNames, f \in FileNames \cup ClimbingFiles :
           SaveFileReq(n, f) /\ OnlyLife
    \/ \E n \in LifeNames, e \in EntryNames : DeleteFileReq(n, e) /\ OnlyLife
    \/ \E n \in LifeNames, d \in FolderNames : CreateFolderReq(n, d, <<>>, <<>>) /\ OnlyLife
    \/ \E n \in LifeNames, t \in TargetPaths, l \in LinkNames :
           CreateSymlinkReq(n, t, l, <<>>, <<>>) /\ OnlyLife

SpecFilesRoot == Init /\ [][FilesRootNext]_vars

\* The operations on the files root
FileOps == {"save_file", "delete_file", "create_folder", "create_symlink"}

\* C17: save_file, delete_file, create_folder and create_symlink, whether
\* they succeed or fail, leave every instance's index directory, its
\* contents and the result of list_rags unchanged.
C17_FileOpsLeaveIndex ==
    [][last'.op \in FileOps
          => /\ indexDir' = indexDir
             /\ indexDocs' = indexDocs
             /\ list_rags' = list_rags]_vars


Conforming(items) == SelectSeq(items, LAMBDA doc : doc.hasContent /\ doc.hasSource)

\* C19: for every retrieval-tool result that is a list of items, the
\* documents event emitted for it holds exactly the items that have both
\* content and source, in their original order; an item lacking one of the
\* fields is dropped without removing a valid item of the same batch (a
\* batch without any conforming item yields no event).
C19_DocumentsEventItems ==
    [][\A call \in 1..Len(calls) : \A output \in RagOutputs :
          (RawToolCallResult(call, output) /\ calls[call] = "rag_tool"
             /\ output.shape = "list")
              => emitted' = emitted \o
                   (IF Conforming(output.items) = <<>> THEN <<>>
                    ELSE <<[Event("documents") EXCEPT
                               !.call = call,
                               !.items = Conforming(output.items)]>>)]_vars

\* A documents event holding D2 alone: the batch was <<NoSourceItem, D2>>
C19_Witness ==
    \E i \in 1..Len(emitted) :
        /\ emitted[i].type = "documents"
        /\ emitted[i].items = <<D2>>
        /\ calls[emitted[i].call] = "rag_tool"


\* StreamEventType: the event types of the stream protocol
StreamEventTypes ==
    {"token", "tool_call", "sources", "documents", "read_file", "list_files",
     "chat_history", "final"}

\* C20: every event delivered to the client of a streamed query has a type
\* of the stream protocol; no error-typed event reaches the client, also
\* when the engine feed fails during the run.
C20_DeliveredTypesLegal ==
    \A i \in 1..Len(delivered) : delivered[i].type \in StreamEventTypes


\* C21: if the consumer stops reading a streamed query before the raw
\* engine feed is exhausted, the multiplexer consumes no further raw engine
\* event and emits no final event for that run.
C21_AbandonedRunIsSilent ==
    /\ [](streamPc = "abandoned" =>
            \A i \in 1..Len(emitted) : emitted[i].type # "final")
    /\ [][streamPc = "abandoned" => UNCHANGED <<rawCount, emitted, delivered>>]_vars

\* A run abandoned after it had yielded events and before the feed ended
C21_Witness ==
    /\ streamPc = "abandoned"
    /\ rawCount > 0 /\ rawCount < MaxFeed
    /\ Len(emitted) > 0


\* The data of the documents events of a sequence of events, concatenated
RECURSIVE DocumentsEmitted(_)
DocumentsEmitted(evs) ==
    IF evs = <<>> THEN <<>>
    ELSE (IF Head(evs).type = "documents" THEN Head(evs).items ELSE <<>>)
         \o DocumentsEmitted(Tail(evs))

\* The data of the sources events of a sequence of events
RECURSIVE SourcesEmitted(_)
SourcesEmitted(evs) ==
    IF evs = <<>> THEN <<>>
    ELSE (IF Head(evs).type = "sources" THEN <<Head(evs).source>> ELSE <<>>)
         \o SourcesEmitted(Tail(evs))

\* The items of the chat_history events of a sequence of events
RECURSIVE ChatEmitted(_)
ChatEmitted(evs) ==
    IF evs = <<>> THEN <<>>
    ELSE (IF Head(evs).type = "chat_history" THEN <<Head(evs).item>> ELSE <<>>)
         \o ChatEmitted(Tail(evs))

\* The caller's input history, as items
HistoryItems == [j \in 1..Len(history) |-> Message(history[j].role, history[j].content)]

LegalRoles == {"user", "assistant"}

\* C23: in every chat_history event and in every item of the final event's
\* chat_history the role is 'user' or 'assistant'; any other upstream role
\* is mapped to 'assistant' (and the two legal roles are kept).
C23_RolesAreLegal ==
    /\ [](\A i \in 1..Len(emitted) :
            /\ emitted[i].type = "chat_history" => emitted[i].item.role \in LegalRoles
            /\ emitted[i].type = "final" =>
                  \A k \in 1..Len(emitted[i].chat_history) :
                      emitted[i].chat_history[k].role \in LegalRoles)
    /\ [][\A role \in Roles :
            RawAgentOutput(role, TRUE)
                => emitted'[Len(emitted')].item.role =
                       IF role \in LegalRoles THEN role ELSE "assistant"]_vars

\* A finished run in which the engine produced a turn with role 'tool':
\* the client got it as 'assistant', in the event and in the final event
C23_Witness ==
    /\ streamPc = "done"
    /\ \E j \in 1..Len(accChat) : accChat[j].role = "tool" /\ accChat[j].hasKeys
    /\ \E i \in 1..Len(emitted) :
          emitted[i].type = "chat_history" /\ emitted[i].item.role = "assistant"
    /\ \A j \in 1..Len(accChat) : accChat[j].role # "assistant"


\* Every name of the list ends in .json: create_rag takes the JSON branch
AllJson(files) == \A i \in 1..Len(files) : EndsWithJson(files[i])

\* C24: the choice between the JSON reader and the free-text reader does
\* not change which loose files are admitted: a file is admitted under the
\* JSON branch (_filter_files_by_globs) exactly when the same file would be
\* admitted under the free-text branch (not excluded, and an include
\* pattern matches its name or its path).
C24_BranchesAdmitSame ==
    (gDone /\ AllJson(gFiles)) =>
        \A i \in 1..Len(gFiles) :
            (\E k \in 1..Len(gResult) : gResult[k] = gFiles[i])
                <=> (/\ ~MatchesAny(gFiles[i], gExclude)
                     /\ AdmitsDocument(gFiles[i], gInclude))

\* C25: when include_globs is ['**/*'], _filter_files_by_globs returns every
\* input file name that matches no exclude pattern (the input list itself
\* when there is no exclude pattern), for every list of bare file names.
C25_DefaultIncludeAdmitsAll ==
    (gDone /\ gInclude = <<"**/*">>
       /\ \A i \in 1..Len(gFiles) : gFiles[i] \in {"a.txt", "b.json"}) =>
        /\ \A i \in 1..Len(gFiles) :
              ~MatchesAny(gFiles[i], gExclude)
                  => \E k \in 1..Len(gResult) : gResult[k] = gFiles[i]
        /\ gExclude = <<>> => gResult = gFiles


\* The raw output a read_file event was built from
RawOfReadFile(ev) == IF ev.success THEN ev.content ELSE ev.error

\* C26: for every result of the file-read tool, the read_file event has
\* success = false exactly when the raw output is one of the sentinel
\* strings read_file_tool produces ('File not found: ...', 'Error reading
\* file: ...'); when success is false, content is empty and error is the
\* raw output; when success is true, content is the raw output and error
\* is null.
C26_ReadFileSuccess ==
    \A i \in 1..Len(emitted) :
        emitted[i].type = "read_file" =>
            /\ ~emitted[i].success <=> RawOfReadFile(emitted[i]).origin = "sentinel"
            /\ ~emitted[i].success => emitted[i].content = NoText
            /\ emitted[i].success => emitted[i].error = NoText


\* C27: when two create/reindex calls (or a create/reindex and a delete) on
\* the same instance run concurrently, then once both have returned the
\* index directory is either absent or holds exactly the complete set of
\* index files written by one of the calls, never a mixture of files of
\* both or a partially deleted index.
C27_LastWriterWins ==
    (\A t \in Tasks : racePc[t] = "returned") =>
        \/ ~raceDir /\ IndexChildren = {}
        \/ raceDir /\ \E t \in Tasks : \A f \in IndexFileSet : raceFiles[f] = t


\* C28: if create_rag reports a failure (index build, index persist or
\* summary generation raises), the instance's persisted index and its
\* membership in list_rags are the same as before the call.
C28_FailedCreateKeepsIndex ==
    [][\A n \in Names : \A fail \in CreateFailures :
          ((CreateRagReq(n, fail) \/ ReindexReq(n, fail)) /\ last'.status = 500)
              => /\ indexDocs'[n] = indexDocs[n]
                 /\ indexDir'[n] = indexDir[n]
                 /\ list_rags' = list_rags]_vars


\* C29: Settings.embed_model holds its original value whenever no
\* create_rag, _load_index or add_url_to_rag call is in progress, after any
\* sequence of such calls, calls that raise and calls whose save/set/restore
\* sections overlap included.
C29_EmbedModelRestored ==
    (\A t \in Tasks : taskPc[t] = "idle") => settingsEmbed = OriginalEmbedModel


\* C30: a create-symlink request that is answered with an error leaves the
\* instance unchanged: no files root is created, no link is added to the files
\* root and no config file is written.
C30_FailedSymlinkLeavesInstance ==
    [][\A n \in Names : \A t \in TargetPaths : \A l \in LinkNames :
         \A exc \in RequestPatterns :
          (CreateSymlinkReq(n, t, l, <<>>, exc) /\ last'.status # 201)
              => /\ filesRoot'[n] = filesRoot[n]
                 /\ entries'[n] = entries[n]
                 /\ configFile'[n] = configFile[n]]_vars
====
